---- MODULE Spec2Model ----
(***************************************************************************)
(* poc-address-finder: the nearest-NMI resolver, the two mocked lookup     *)
(* endpoints and the selection controller of the map view.                 *)
(*                                                                         *)
(* Coordinates are integers (a grid of whole units).  On such values the   *)
(* double arithmetic of the source is exact for the subtraction and the    *)
(* square, and Math.sqrt is strictly increasing, which Sqrt below keeps.   *)
(*                                                                         *)
(* JavaScript null of a string is the value Null; null of an object is the *)
(* empty sequence << >> and an object x is << x >>.                        *)
(***************************************************************************)
EXTENDS Integers, Sequences, FiniteSets, TLC

VARIABLES
    \* the directories
    nmiMarkers,         \* client list of NMI records (nmiMarkers / mockNmiData)
    nmiGeocodeData,     \* /api/geocode: identifier -> coordinates
    mockAddressData,    \* /api/addressfinder: identifier -> address
    \* one call of the resolver
    rFn, rArgs, rPc, rNearest, rOutcome, rResult,
    \* the lookup service
    apiReq, apiRes, apiSeen, apiRepeat,
    \* the mounted view and its environment
    view,               \* "MapWithNmi" (the page), "App", or Null (none)
    geolocation,        \* whether navigator.geolocation exists
    \* the selection (useState of the view)
    selectedPosition, selectedNmi, address, confirmedAddress, loading, error,
    \* requests in flight
    requests,           \* selection requests, in the order they were issued
    confirms,           \* forward-geocoding requests of handleConfirm
    uncaught,           \* an exception has left a handler
    lastSettled         \* history: the selection request that finished last

dirVars == <<nmiMarkers, nmiGeocodeData, mockAddressData>>
resolverVars == <<rFn, rArgs, rPc, rNearest, rOutcome, rResult>>
apiVars == <<apiReq, apiRes, apiSeen, apiRepeat>>
envVars == <<view, geolocation>>
selVars == <<selectedPosition, selectedNmi, address, confirmedAddress, loading, error>>
flightVars == <<requests, confirms, uncaught, lastSettled>>
ctlVars == <<envVars, selVars, flightVars>>
vars == <<dirVars, resolverVars, apiVars, ctlVars>>

----------------------------------------------------------------------------
(* Bounds *)

\* coordinates of the resolver's inputs range over 0..GridMax
GridMax == 1
\* longest directory drawn for the resolver
MaxDir == 3
\* requests in flight at once (selection requests and forward geocodings)
MaxInFlight == 2

----------------------------------------------------------------------------
(* Values *)

Null == "<null>"
None == << >>
Some(x) == << x >>

NmiIds == {"NMI001", "NMI002", "NMI003"}

\* the three records of the source, in whole degrees
ProgramNmiMarkers ==
    << [nmi |-> "NMI001", lat |-> -34, lng |-> 151],
       [nmi |-> "NMI002", lat |-> -38, lng |-> 145],
       [nmi |-> "NMI003", lat |-> -27, lng |-> 153] >>

ProgramNmiGeocodeData ==
    [k \in NmiIds |->
        IF k = "NMI001" THEN [lat |-> -34, lng |-> 151]
        ELSE IF k = "NMI002" THEN [lat |-> -38, lng |-> 145]
        ELSE [lat |-> -27, lng |-> 153]]

ProgramMockAddressData ==
    [k \in NmiIds |->
        IF k = "NMI001" THEN "1 Market St, Sydney NSW 2000, Australia"
        ELSE IF k = "NMI002" THEN "123 Collins St, Melbourne VIC 3000, Australia"
        ELSE "456 Queen St, Brisbane QLD 4000, Australia"]

----------------------------------------------------------------------------
(* Nearest-neighbour scan *)

\* fixed-point scale of Sqrt: strictly increasing on 0 .. (SqrtScale \div 2)^2
SqrtScale == 64

RECURSIVE Pow(_, _)
Pow(b, e) == IF e = 0 THEN 1 ELSE b * Pow(b, e - 1)

RECURSIVE ISqrtBetween(_, _, _)
ISqrtBetween(n, lo, hi) ==
    IF lo >= hi THEN lo
    ELSE LET mid == (lo + hi + 1) \div 2
         IN  IF mid * mid <= n THEN ISqrtBetween(n, mid, hi)
             ELSE ISqrtBetween(n, lo, mid - 1)

Sqrt(x) == ISqrtBetween(x * SqrtScale * SqrtScale, 0, SqrtScale * (x + 1))

Dist(c, lat, lng) == Sqrt(Pow(c.lat - lat, 2) + Pow(c.lng - lng, 2))

\* Number.POSITIVE_INFINITY, below which every distance lies
POSITIVE_INFINITY == -1

\* dist > minDist
Farther(dist, minDist) == minDist = POSITIVE_INFINITY \/ dist > minDist

CloserOrEqual(dist, minDist) == minDist = POSITIVE_INFINITY \/ dist <= minDist

\* dist < minDist
Closer(dist, minDist) == minDist = POSITIVE_INFINITY \/ dist < minDist

\* the loop over the directory from record i on; the result is `nearest`
RECURSIVE NearestLoop(_, _, _, _, _, _)
NearestLoop(dir, i, lat, lng, minDist, nearest) ==
    IF i > Len(dir) THEN nearest
    ELSE LET dist == Dist(dir[i], lat, lng)
         IN  IF Closer(dist, minDist)
             THEN NearestLoop(dir, i + 1, lat, lng, dist, Some(dir[i]))
             ELSE NearestLoop(dir, i + 1, lat, lng, minDist, nearest)

NearestRecord(dir, lat, lng) == NearestLoop(dir, 1, lat, lng, POSITIVE_INFINITY, None)

\* App.tsx: the identifier of the nearest record, or null
findNearestNmi(dir, lat, lng) ==
    LET nearest == NearestRecord(dir, lat, lng)
    IN  IF nearest = None THEN None ELSE Some(nearest[1].nmi)

----------------------------------------------------------------------------
(* Lookup service *)

\* the nmi query parameter: absent, one string, or repeated (an array)
Undefined == [kind |-> "undefined", val |-> ""]
Str(s) == [kind |-> "string", val |-> s]
Arr(s) == [kind |-> "array", val |-> s]

\* keys every object literal inherits from Object.prototype (functions)
ObjectPrototypeKeys == {"constructor", "toString"}

\* obj[key] of an object literal: own property, inherited function, undefined
Get(obj, key) ==
    IF key \in DOMAIN obj THEN [kind |-> "own", val |-> Some(obj[key])]
    ELSE IF key \in ObjectPrototypeKeys THEN [kind |-> "function", val |-> None]
    ELSE [kind |-> "undefined", val |-> None]

\* !v
Falsy(v) == v.kind = "undefined" \/ (v.kind = "own" /\ v.val = Some(""))

BadRequest == [status |-> 400, body |-> [error |-> "Missing or invalid NMI"]]
NotFound == [status |-> 404, body |-> [error |-> "NMI not found"]]

\* an endpoint that answers each identifier once
AddressHandlerOnce(query, data) ==
    IF query.kind # "string" THEN BadRequest
    ELSE IF query.val \notin DOMAIN data
            \/ apiSeen[[endpoint |-> "addressfinder", query |-> query]] # None
    THEN NotFound
    ELSE [status |-> 200, body |-> [nmi |-> query.val, address |-> data[query.val]]]

\* /api/addressfinder; JSON drops a property whose value is a function
AddressHandler(query, data) ==
    IF query.kind # "string" THEN BadRequest
    ELSE LET entry == Get(data, query.val)
         IN  IF Falsy(entry) THEN NotFound
             ELSE IF entry.kind = "own"
             THEN [status |-> 200,
                   body |-> [nmi |-> query.val, address |-> entry.val[1]]]
             ELSE [status |-> 200, body |-> [nmi |-> query.val]]

\* /api/geocode; an own value is an object, which is truthy; spreading a
\* function adds no property
GeocodeHandler(query, data) ==
    IF query.kind # "string" THEN BadRequest
    ELSE LET geocode == Get(data, query.val)
         IN  IF geocode.kind = "undefined" THEN NotFound
             ELSE IF geocode.kind = "own"
             THEN [status |-> 200,
                   body |-> [nmi |-> query.val, lat |-> geocode.val[1].lat,
                             lng |-> geocode.val[1].lng]]
             ELSE [status |-> 200, body |-> [nmi |-> query.val]]

\* res.ok
Ok(res) == res.status >= 200 /\ res.status <= 299

----------------------------------------------------------------------------
(* The resolver, called on drawn directories and coordinates *)

Grid == 0..GridMax

GridRecords == [nmi : NmiIds, lat : Grid, lng : Grid]

UniqueIds(dir) == \A i, j \in 1..Len(dir) : dir[i].nmi = dir[j].nmi => i = j

Directories ==
    UNION {{dir \in [1..n -> GridRecords] : UniqueIds(dir)} : n \in 0..MaxDir}

\* the server's table of the same records
GeocodeDataOf(dir) ==
    [k \in {dir[i].nmi : i \in 1..Len(dir)} |->
        LET r == CHOOSE r \in {dir[i] : i \in 1..Len(dir)} : r.nmi = k
        IN  [lat |-> r.lat, lng |-> r.lng]]

ResolverIdle ==
    /\ rFn = Null
    /\ rArgs = None
    /\ rPc = "idle"
    /\ rNearest = None
    /\ rOutcome = Null
    /\ rResult = None

ApiIdle ==
    /\ apiReq = None
    /\ apiRes = None
    /\ apiRepeat = FALSE

\* the initial useState values
SelectionEmpty ==
    /\ selectedPosition = None
    /\ selectedNmi = Null
    /\ address = ""
    /\ confirmedAddress = ""
    /\ loading = FALSE
    /\ error = ""
    /\ requests = << >>
    /\ confirms = << >>
    /\ uncaught = FALSE
    /\ lastSettled = None

NoView ==
    /\ view = Null
    /\ geolocation = FALSE
    /\ SelectionEmpty

\* findNearestNmi(lat, lng) of App.tsx
CallFindNearestNmi(lat, lng) ==
    /\ rPc = "idle"
    /\ rFn' = "findNearestNmi"
    /\ rArgs' = <<lat, lng>>
    /\ rNearest' = None
    /\ rOutcome' = Null
    /\ rResult' = findNearestNmi(nmiMarkers, lat, lng)
    /\ rPc' = "done"
    /\ UNCHANGED <<dirVars, apiVars, ctlVars>>

\* fetchNearestNmi(lat, lng) up to its request: null at once when the scan
\* found nothing, else GET /api/geocode?nmi=<nearest.nmi> is in flight
CallFetchNearestNmi(lat, lng) ==
    /\ rPc = "idle"
    /\ rFn' = "fetchNearestNmi"
    /\ rArgs' = <<lat, lng>>
    /\ rNearest' = NearestRecord(nmiMarkers, lat, lng)
    /\ rOutcome' = Null
    /\ rResult' = None
    /\ rPc' = IF rNearest' = None THEN "done" ELSE "fetch"
    /\ UNCHANGED <<dirVars, apiVars, ctlVars>>

NearestNmiUnchecked(res) == Some(res.body)

\* what fetchNearestNmi returns for a response: null unless res.ok
NearestNmiOfResponse(res) == IF ~Ok(res) THEN None ELSE Some(res.body)

GatewayError == [status |-> 500, body |-> [error |-> "Internal Server Error"]]

\* how a request ends: the endpoint answers, the answer is an error status
\* from the transport, or the request rejects
FetchOutcomes == {"served", "httpError", "reject"}

ResponseOf(outcome, served) == IF outcome = "served" THEN served ELSE GatewayError

\* the request of fetchNearestNmi ends
FetchNearestNmiSettles(outcome) ==
    /\ rPc = "fetch"
    /\ rOutcome' = outcome
    /\ IF outcome = "reject"
       THEN /\ rPc' = "threw"
            /\ rResult' = None
       ELSE /\ rPc' = "done"
            /\ rResult' = NearestNmiOfResponse(
                   ResponseOf(outcome,
                       GeocodeHandler(Str(rNearest[1].nmi), nmiGeocodeData)))
    /\ UNCHANGED <<dirVars, apiVars, ctlVars, rFn, rArgs, rNearest>>

InitResolve ==
    /\ nmiMarkers \in Directories
    /\ nmiGeocodeData = GeocodeDataOf(nmiMarkers)
    /\ mockAddressData = ProgramMockAddressData
    /\ ResolverIdle
    /\ ApiIdle
    /\ apiSeen = << >>
    /\ NoView

NextResolve ==
    \/ \E lat \in Grid, lng \in Grid : CallFindNearestNmi(lat, lng)
    \/ \E lat \in Grid, lng \in Grid : CallFetchNearestNmi(lat, lng)
    \/ \E outcome \in FetchOutcomes : FetchNearestNmiSettles(outcome)

SpecResolve == InitResolve /\ [][NextResolve]_vars

----------------------------------------------------------------------------
(* The lookup service, called with drawn query parameters *)

Queries ==
    {Undefined, Arr("NMI001"), Str(""), Str("NMI002"), Str("UNKNOWN"),
     Str("constructor")}

Endpoints == {"geocode", "addressfinder"}

Requests == [endpoint : Endpoints, query : Queries]

\* the first response given to each request so far
Remember(seen, req, res) ==
    IF seen[req] = None THEN [seen EXCEPT ![req] = Some(res)] ELSE seen

GeocodeRequest(query) ==
    LET req == [endpoint |-> "geocode", query |-> query]
        res == GeocodeHandler(query, nmiGeocodeData)
    IN  /\ apiReq' = Some(req)
        /\ apiRes' = Some(res)
        /\ apiSeen' = Remember(apiSeen, req, res)
        /\ apiRepeat' = (apiSeen[req] # None)
        /\ UNCHANGED <<dirVars, resolverVars, ctlVars>>

AddressRequest(query) ==
    LET req == [endpoint |-> "addressfinder", query |-> query]
        res == AddressHandler(query, mockAddressData)
    IN  /\ apiReq' = Some(req)
        /\ apiRes' = Some(res)
        /\ apiSeen' = Remember(apiSeen, req, res)
        /\ apiRepeat' = (apiSeen[req] # None)
        /\ UNCHANGED <<dirVars, resolverVars, ctlVars>>

InitApi ==
    /\ nmiMarkers = ProgramNmiMarkers
    /\ nmiGeocodeData = ProgramNmiGeocodeData
    /\ mockAddressData = ProgramMockAddressData
    /\ ResolverIdle
    /\ ApiIdle
    /\ apiSeen = [req \in Requests |-> None]
    /\ NoView

NextApi ==
    \/ \E query \in Queries : GeocodeRequest(query)
    \/ \E query \in Queries : AddressRequest(query)

SpecApi == InitApi /\ [][NextApi]_vars

----------------------------------------------------------------------------
(* The selection controller: MapWithNmi (the page's view) and App *)

FailedMessage == "Failed to fetch NMI or address"
UnsupportedMessage == "Geolocation is not supported by your browser."
LocationMessage ==
    "Unable to retrieve your location. Please allow location access and try again."

Position(lat, lng) == Some([lat |-> lat, lng |-> lng])

\* where the user clicks: the marker of NMI001 and a point next to NMI002
ClickCoords == {[lat |-> -34, lng |-> 151], [lat |-> -37, lng |-> 146]}
\* position.coords of the device
FixCoords == {[lat |-> -37, lng |-> 146]}
\* results[0].formatted_address of the reverse geocoder
PlaceStrings == {"A1", "A2"}
\* e.target.value of the address input
TypedStrings == {"", "A1"}
\* results[0].geometry.location of the forward geocoder
GeocodedCoords == {[lat |-> -27, lng |-> 153]}

\* how many requests are in flight
InFlight == Len(requests) + Len(confirms)

\* a string in a condition
Truthy(str) == str # Null /\ str # ""

Remove(seq, i) == SubSeq(seq, 1, i - 1) \o SubSeq(seq, i + 1, Len(seq))

\* the requests of handleMapClick among reqs (not those awaiting a fix)
Resolving(reqs) == {i \in 1..Len(reqs) : reqs[i].pc # "geolocation"}

\* a newer click aborts the requests in flight
AbortInFlight(reqs) == SubSeq(reqs, 1, 0)

\* a newer click leaves the requests in flight as they are; each is noted as
\* overtaken
KeepInFlight(reqs) ==
    [i \in 1..Len(reqs) |->
        IF reqs[i].pc = "geolocation" THEN reqs[i]
        ELSE [reqs[i] EXCEPT !.overtaken = TRUE]]

ConfirmedAddressKept == confirmedAddress

\* setConfirmedAddress("") of handleMapClick
ConfirmedAddressReset == ""

AddressKept == address

\* setAddress("") of handleMapClick
AddressReset == ""

\* what is remembered of a request that finished
Settled(r, outcome) ==
    Some([pc |-> r.pc, outcome |-> outcome, overtaken |-> r.overtaken,
          overlapping |-> r.overlapping])

\* handleMapClick(lat, lng) up to its first await; others are the requests
\* in flight.  fetchNearestNmi scans at once and, unless the directory is
\* empty, leaves GET /api/geocode in flight.  A request in flight is at
\* pc "nearestNmi" (awaiting fetchNearestNmi) or, later, at pc "address"
\* (awaiting fetchAddressFromCoords, asked about latlng).
HandleMapClick(lat, lng, others) ==
    LET nearest == NearestRecord(nmiMarkers, lat, lng)
    IN  /\ error' = ""
        /\ selectedPosition' = Position(lat, lng)
        /\ selectedNmi' = Null
        /\ address' = AddressReset
        /\ confirmedAddress' = ConfirmedAddressReset
        /\ IF nearest = None
           THEN /\ loading' = FALSE
                /\ requests' = others
           ELSE /\ loading' = TRUE
                /\ requests' = Append(KeepInFlight(others),
                       [pc |-> "nearestNmi", pos |-> Position(lat, lng),
                        nearest |-> nearest, latlng |-> None,
                        overtaken |-> FALSE,
                        overlapping |-> Resolving(others) # {}])
        /\ UNCHANGED <<confirms, uncaught, lastSettled, envVars, dirVars,
                       resolverVars, apiVars>>

\* a click on the map or on a marker
MapClick(lat, lng) ==
    /\ view = "MapWithNmi"
    /\ InFlight < MaxInFlight
    /\ HandleMapClick(lat, lng, requests)

NotCaught(threw) == [error |-> error, propagates |-> threw]

\* try { ... } catch (e) { setError(...) } of handleMapClick
Caught(threw) ==
    [error |-> IF threw THEN FailedMessage ELSE error, propagates |-> FALSE]

\* the address is asked for at the coordinate of the record that came back
ReverseGeocodeAtRecord(r, nmiGeocode) == Position(nmiGeocode.lat, nmiGeocode.lng)

\* fetchAddressFromCoords(lat, lng): the coordinate the reverse geocoder is
\* asked about is the one handleMapClick was called with
ReverseGeocodeQuery(r, nmiGeocode) == r.pos

\* the request of fetchNearestNmi ends and handleMapClick goes on
NearestNmiSettles(i, outcome) ==
    /\ view = "MapWithNmi"
    /\ i \in 1..Len(requests)
    /\ requests[i].pc = "nearestNmi"
    /\ LET threw == outcome = "reject"
           nmiGeocode ==
               IF threw THEN None
               ELSE NearestNmiOfResponse(
                        ResponseOf(outcome,
                            GeocodeHandler(Str(requests[i].nearest[1].nmi),
                                           nmiGeocodeData)))
       IN  /\ error' = Caught(threw).error
           /\ uncaught' = (uncaught \/ Caught(threw).propagates)
           /\ IF threw
              THEN /\ loading' = FALSE
                   /\ requests' = Remove(requests, i)
                   /\ lastSettled' = Settled(requests[i], outcome)
                   /\ UNCHANGED <<selectedNmi, address>>
              ELSE IF nmiGeocode # None /\ Truthy(nmiGeocode[1].nmi)
              THEN /\ selectedNmi' = nmiGeocode[1].nmi
                   /\ requests' =
                          [requests EXCEPT
                              ![i].pc = "address",
                              ![i].latlng =
                                  ReverseGeocodeQuery(requests[i], nmiGeocode[1])]
                   /\ UNCHANGED <<address, loading, lastSettled>>
              ELSE /\ selectedNmi' = Null
                   /\ address' = ""
                   /\ loading' = FALSE
                   /\ requests' = Remove(requests, i)
                   /\ lastSettled' = Settled(requests[i], outcome)
    /\ UNCHANGED <<selectedPosition, confirmedAddress, confirms, envVars,
                   dirVars, resolverVars, apiVars>>

\* fetchAddressFromCoords when its request does not reject
fetchAddressFromCoords(outcome, results) ==
    IF outcome = "httpError" THEN ""
    ELSE IF results # None THEN results[1]
    ELSE ""

\* handleMapClick has no finally: isLoading is left as it is
AddressSettlesNoFinally(i, outcome, results) ==
    /\ view = "MapWithNmi"
    /\ i \in 1..Len(requests)
    /\ requests[i].pc = "address"
    /\ outcome = "served" \/ results = None
    /\ LET threw == outcome = "reject"
       IN  /\ error' = Caught(threw).error
           /\ uncaught' = (uncaught \/ Caught(threw).propagates)
           /\ address' = IF threw THEN address
                         ELSE fetchAddressFromCoords(outcome, results)
    /\ requests' = Remove(requests, i)
    /\ lastSettled' = Settled(requests[i], outcome)
    /\ UNCHANGED <<selectedPosition, selectedNmi, confirmedAddress, confirms,
                   loading, envVars, dirVars, resolverVars, apiVars>>

\* the request of fetchAddressFromCoords ends and handleMapClick finishes
AddressSettles(i, outcome, results) ==
    /\ view = "MapWithNmi"
    /\ i \in 1..Len(requests)
    /\ requests[i].pc = "address"
    /\ outcome = "served" \/ results = None
    /\ LET threw == outcome = "reject"
       IN  /\ error' = Caught(threw).error
           /\ uncaught' = (uncaught \/ Caught(threw).propagates)
           /\ address' = IF threw THEN address
                         ELSE fetchAddressFromCoords(outcome, results)
    /\ loading' = FALSE
    /\ requests' = Remove(requests, i)
    /\ lastSettled' = Settled(requests[i], outcome)
    /\ UNCHANGED <<selectedPosition, selectedNmi, confirmedAddress, confirms,
                   envVars, dirVars, resolverVars, apiVars>>

\* the details panel is rendered whenever nothing is loading or reported
PanelShownWithoutNmi == ~loading /\ error = ""

\* the details panel with the address input and the two buttons is rendered
PanelShown == ~loading /\ error = "" /\ Truthy(selectedNmi)

\* setLoading(true) runs before navigator.geolocation is looked at
UseCurrentLocationUnsupportedLoading ==
    /\ view = "MapWithNmi"
    /\ PanelShown
    /\ ~geolocation
    /\ loading' = TRUE
    /\ error' = UnsupportedMessage
    /\ UNCHANGED <<selectedPosition, selectedNmi, address, confirmedAddress,
                   flightVars, envVars, dirVars, resolverVars, apiVars>>

\* handleUseCurrentLocation without navigator.geolocation
UseCurrentLocationUnsupported ==
    /\ view = "MapWithNmi"
    /\ PanelShown
    /\ ~loading
    /\ ~geolocation
    /\ error' = UnsupportedMessage
    /\ UNCHANGED <<selectedPosition, selectedNmi, address, confirmedAddress,
                   loading, flightVars, envVars, dirVars, resolverVars, apiVars>>

\* handleUseCurrentLocation: getCurrentPosition is asked for one fix
UseCurrentLocation ==
    /\ view = "MapWithNmi"
    /\ PanelShown
    /\ ~loading
    /\ geolocation
    /\ InFlight < MaxInFlight
    /\ loading' = TRUE
    /\ error' = ""
    /\ requests' = Append(requests,
           [pc |-> "geolocation", pos |-> None, nearest |-> None,
            latlng |-> None, overtaken |-> FALSE, overlapping |-> FALSE])
    /\ UNCHANGED <<selectedPosition, selectedNmi, address, confirmedAddress,
                   confirms, uncaught, lastSettled, envVars, dirVars,
                   resolverVars, apiVars>>

\* the success callback: handleMapClick(latitude, longitude)
GeolocationSuccess(i, lat, lng) ==
    /\ view = "MapWithNmi"
    /\ i \in 1..Len(requests)
    /\ requests[i].pc = "geolocation"
    /\ HandleMapClick(lat, lng, Remove(requests, i))

\* the error callback selects DEFAULT_POSITION instead
GeolocationFailureFallsBack(i) ==
    /\ view = "MapWithNmi"
    /\ i \in 1..Len(requests)
    /\ requests[i].pc = "geolocation"
    /\ HandleMapClick(-34, 151, Remove(requests, i))

\* the error callback (denial or timeout)
GeolocationFailure(i) ==
    /\ view = "MapWithNmi"
    /\ i \in 1..Len(requests)
    /\ requests[i].pc = "geolocation"
    /\ loading' = FALSE
    /\ error' = LocationMessage
    /\ requests' = Remove(requests, i)
    /\ lastSettled' = Settled(requests[i], "reject")
    /\ UNCHANGED <<selectedPosition, selectedNmi, address, confirmedAddress,
                   confirms, uncaught, envVars, dirVars, resolverVars, apiVars>>

ConfirmDisabledWhenEmpty == address = ""

\* disabled={!address || address === confirmedAddress}
ConfirmDisabled == address = "" \/ address = confirmedAddress

\* handleConfirm up to its await
HandleConfirm ==
    /\ view = "MapWithNmi"
    /\ PanelShown
    /\ ~ConfirmDisabled
    /\ InFlight < MaxInFlight
    /\ confirmedAddress' = address
    /\ confirms' = Append(confirms, [address |-> address])
    /\ UNCHANGED <<selectedPosition, selectedNmi, address, loading, error,
                   requests, uncaught, lastSettled, envVars, dirVars,
                   resolverVars, apiVars>>

\* fetchLatLngFromAddress when its request does not reject
fetchLatLngFromAddress(outcome, results) ==
    IF outcome = "httpError" THEN None ELSE results

\* handleConfirm ends with setLoading(false), as handleMapClick does
ConfirmSettlesClearsLoading(i, outcome, results) ==
    /\ view = "MapWithNmi"
    /\ i \in 1..Len(confirms)
    /\ outcome = "served" \/ results = None
    /\ LET coords == IF outcome = "reject" THEN None
                     ELSE fetchLatLngFromAddress(outcome, results)
       IN  selectedPosition' = IF coords # None THEN coords ELSE selectedPosition
    /\ loading' = FALSE
    /\ confirms' = Remove(confirms, i)
    /\ UNCHANGED <<selectedNmi, address, confirmedAddress, error,
                   requests, uncaught, lastSettled, envVars, dirVars,
                   resolverVars, apiVars>>

\* the request of fetchLatLngFromAddress ends; a failure is reported like
\* one of handleMapClick
ConfirmSettlesReports(i, outcome, results) ==
    /\ view = "MapWithNmi"
    /\ i \in 1..Len(confirms)
    /\ outcome = "served" \/ results = None
    /\ LET coords == IF outcome = "reject" THEN None
                     ELSE fetchLatLngFromAddress(outcome, results)
       IN  /\ selectedPosition' = IF coords # None THEN coords ELSE selectedPosition
           /\ error' = IF coords # None THEN error ELSE FailedMessage
    /\ confirms' = Remove(confirms, i)
    /\ UNCHANGED <<selectedNmi, address, confirmedAddress, loading,
                   requests, uncaught, lastSettled, envVars, dirVars,
                   resolverVars, apiVars>>

\* the request of fetchLatLngFromAddress ends; a rejection is swallowed
ConfirmSettles(i, outcome, results) ==
    /\ view = "MapWithNmi"
    /\ i \in 1..Len(confirms)
    /\ outcome = "served" \/ results = None
    /\ LET coords == IF outcome = "reject" THEN None
                     ELSE fetchLatLngFromAddress(outcome, results)
       IN  selectedPosition' = IF coords # None THEN coords ELSE selectedPosition
    /\ confirms' = Remove(confirms, i)
    /\ UNCHANGED <<selectedNmi, address, confirmedAddress, loading, error,
                   requests, uncaught, lastSettled, envVars, dirVars,
                   resolverVars, apiVars>>

\* an edit also withdraws the confirmation
SetAddressUnconfirms(s) ==
    /\ view = "MapWithNmi"
    /\ PanelShown
    /\ address' = s
    /\ confirmedAddress' = ""
    /\ UNCHANGED <<selectedPosition, selectedNmi, loading,
                   error, flightVars, envVars, dirVars, resolverVars, apiVars>>

\* onAddressChange={setAddress}
SetAddress(s) ==
    /\ view = "MapWithNmi"
    /\ PanelShown
    /\ address' = s
    /\ UNCHANGED <<selectedPosition, selectedNmi, confirmedAddress, loading,
                   error, flightVars, envVars, dirVars, resolverVars, apiVars>>

\* handleMapClick of App
AppHandleMapClick(lat, lng) ==
    /\ view = "App"
    /\ LET nmi == findNearestNmi(nmiMarkers, lat, lng)
           entry == IF nmi = None THEN [kind |-> "undefined", val |-> None]
                    ELSE Get(mockAddressData, nmi[1])
       IN  /\ selectedPosition' = Position(lat, lng)
           /\ selectedNmi' = IF nmi = None THEN Null ELSE nmi[1]
           /\ address' = IF nmi # None /\ Truthy(nmi[1]) /\ entry.kind = "own"
                            /\ ~Falsy(entry)
                         THEN entry.val[1] ELSE ""
           /\ confirmedAddress' = ""
    /\ UNCHANGED <<loading, error, flightVars, envVars, dirVars, resolverVars,
                   apiVars>>

\* handleConfirm of App, behind its button
AppHandleConfirm ==
    /\ view = "App"
    /\ Truthy(selectedNmi)
    /\ ~ConfirmDisabled
    /\ confirmedAddress' = address
    /\ UNCHANGED <<selectedPosition, selectedNmi, address, loading, error,
                   flightVars, envVars, dirVars, resolverVars, apiVars>>

\* onAddressChange={setAddress} of App
AppSetAddress(s) ==
    /\ view = "App"
    /\ Truthy(selectedNmi)
    /\ address' = s
    /\ UNCHANGED <<selectedPosition, selectedNmi, confirmedAddress, loading,
                   error, flightVars, envVars, dirVars, resolverVars, apiVars>>

\* nmiMarkers.some(m => m.lat === selectedPosition.lat && m.lng === selectedPosition.lng)
OnNmiMarker(pos) ==
    \E k \in 1..Len(nmiMarkers) :
        nmiMarkers[k].lat = pos.lat /\ nmiMarkers[k].lng = pos.lng

\* the marker is left out whenever the position is on an NMI marker
GenericMarkerOffMarkers ==
    selectedPosition # None /\ ~OnNmiMarker(selectedPosition[1])

\* the <Marker position={selectedPosition}> of the view is rendered
GenericMarkerShown ==
    IF view = "App" THEN selectedPosition # None
    ELSE /\ selectedPosition # None
         /\ ~Truthy(selectedNmi) \/ ~OnNmiMarker(selectedPosition[1])

GeocoderResults(S) == {None} \cup {Some(x) : x \in S}

Init ==
    /\ nmiMarkers = ProgramNmiMarkers
    /\ nmiGeocodeData = ProgramNmiGeocodeData
    /\ mockAddressData = ProgramMockAddressData
    /\ ResolverIdle
    /\ ApiIdle
    /\ apiSeen = << >>
    /\ view \in {"MapWithNmi", "App"}
    /\ geolocation \in BOOLEAN
    /\ SelectionEmpty

Next ==
    \/ \E c \in ClickCoords : MapClick(c.lat, c.lng)
    \/ \E i \in 1..MaxInFlight, outcome \in FetchOutcomes :
          NearestNmiSettles(i, outcome)
    \/ \E i \in 1..MaxInFlight, outcome \in FetchOutcomes,
          results \in GeocoderResults(PlaceStrings) :
          AddressSettles(i, outcome, results)
    \/ UseCurrentLocationUnsupported
    \/ UseCurrentLocation
    \/ \E i \in 1..MaxInFlight, c \in FixCoords : GeolocationSuccess(i, c.lat, c.lng)
    \/ \E i \in 1..MaxInFlight : GeolocationFailure(i)
    \/ HandleConfirm
    \/ \E i \in 1..MaxInFlight, outcome \in FetchOutcomes,
          results \in GeocoderResults(GeocodedCoords) :
          ConfirmSettles(i, outcome, results)
    \/ \E s \in TypedStrings : SetAddress(s)
    \/ \E c \in ClickCoords : AppHandleMapClick(c.lat, c.lng)
    \/ AppHandleConfirm
    \/ \E s \in TypedStrings : AppSetAddress(s)

Spec == Init /\ [][Next]_vars

\* the external collaborators answer.  The oldest selection request in
\* flight takes its next step: its fetch ends (it is served, answered with
\* an error status, or rejects), or getCurrentPosition, called with a
\* timeout, calls one of its two callbacks.
OldestAnswered ==
    \/ \E outcome \in FetchOutcomes : NearestNmiSettles(1, outcome)
    \/ \E outcome \in FetchOutcomes, results \in GeocoderResults(PlaceStrings) :
          AddressSettles(1, outcome, results)
    \/ GeolocationFailure(1)
    \/ \E c \in FixCoords : GeolocationSuccess(1, c.lat, c.lng)

\* the fetch of the oldest forward geocoding in flight ends
OldestConfirmAnswered ==
    \E outcome \in FetchOutcomes, results \in GeocoderResults(GeocodedCoords) :
        ConfirmSettles(1, outcome, results)

\* no request waits for ever: every one gets to be the oldest
FairSpec ==
    /\ Spec
    /\ WF_vars(OldestAnswered)
    /\ WF_vars(OldestConfirmAnswered)

----------------------------------------------------------------------------
(* Claims about the resolver (SpecResolve) *)

\* the exact squared Euclidean distance
SqDist(c, lat, lng) ==
    (c.lat - lat) * (c.lat - lat) + (c.lng - lng) * (c.lng - lng)

\* record i is at minimal distance and no earlier record is as near
FirstMinimal(dir, i, lat, lng) ==
    /\ i \in 1..Len(dir)
    /\ \A j \in 1..Len(dir) : SqDist(dir[i], lat, lng) <= SqDist(dir[j], lat, lng)
    /\ \A j \in 1..(i - 1) : SqDist(dir[j], lat, lng) > SqDist(dir[i], lat, lng)

\* C1: on a non-empty directory the resolver selects the record at minimal
\* Euclidean distance from (lat, lng), the first such in directory order:
\* findNearestNmi returns its identifier, fetchNearestNmi requests it and,
\* when it returns a record, returns that record.
C1_NearestIsFirstMinimal ==
    (rPc \in {"fetch", "done"} /\ Len(nmiMarkers) > 0) =>
        \E i \in 1..Len(nmiMarkers) :
            /\ FirstMinimal(nmiMarkers, i, rArgs[1], rArgs[2])
            /\ rFn = "findNearestNmi" => rResult = Some(nmiMarkers[i].nmi)
            /\ rFn = "fetchNearestNmi" =>
                /\ rNearest = Some(nmiMarkers[i])
                /\ rPc = "done" /\ rResult # None => rResult = Some(nmiMarkers[i])

\* a tie at the minimal distance, resolved to the earlier record
C1_Witness ==
    /\ rPc = "done"
    /\ rFn = "fetchNearestNmi"
    /\ Len(nmiMarkers) = MaxDir
    /\ rResult = Some(nmiMarkers[2])
    /\ \E j \in 3..Len(nmiMarkers) :
          SqDist(nmiMarkers[j], rArgs[1], rArgs[2])
              = SqDist(nmiMarkers[2], rArgs[1], rArgs[2])
    /\ SqDist(nmiMarkers[1], rArgs[1], rArgs[2])
          > SqDist(nmiMarkers[2], rArgs[1], rArgs[2])

Returned == rPc \in {"done", "threw"}
ReturnedNone == rPc = "done" /\ rResult = None

\* C2 as stated: resolve returns none exactly when the directory is empty;
\* on a non-empty directory every call returns a record.
C2_NoneIffEmpty ==
    Returned => (ReturnedNone <=> Len(nmiMarkers) = 0)

\* C2 amended: resolve returns none when the directory is empty; on a
\* non-empty directory findNearestNmi always returns an identifier, and
\* fetchNearestNmi returns none exactly when the response to its lookup
\* request is not OK, throws exactly when that request rejects, and returns
\* a record otherwise.
C2_NoneIffEmptyOrNotOk ==
    Returned =>
        /\ Len(nmiMarkers) = 0 => ReturnedNone
        /\ Len(nmiMarkers) > 0 /\ rFn = "findNearestNmi" => ~ReturnedNone /\ rPc = "done"
        /\ Len(nmiMarkers) > 0 /\ rFn = "fetchNearestNmi" =>
            /\ rPc = "threw" <=> rOutcome = "reject"
            /\ ReturnedNone <=> rOutcome = "httpError"

C2_Witness ==
    /\ rFn = "fetchNearestNmi"
    /\ Len(nmiMarkers) > 0
    /\ ReturnedNone

----------------------------------------------------------------------------
(* Claims about the lookup service (SpecApi) *)

LastQuery == apiReq[1].query
LastResponse == apiRes[1]

\* C3: GET /api/geocode answers 400 iff nmi is missing or not one string, 404
\* iff nmi is a string that is no identifier of the NMI Directory, and else
\* 200 with nmi echoed and the record's coordinates.
C3_GeocodeContract ==
    (apiReq # None /\ apiReq[1].endpoint = "geocode") =>
        LET isString == LastQuery.kind = "string"
            known == isString /\ LastQuery.val \in NmiIds
        IN  /\ LastResponse.status = 400 <=> ~isString
            /\ LastResponse.status = 404 <=> (isString /\ ~known)
            /\ ~isString => LastResponse = BadRequest
            /\ isString /\ ~known => LastResponse = NotFound
            /\ known => LastResponse =
                  [status |-> 200,
                   body |-> [nmi |-> LastQuery.val,
                             lat |-> ProgramNmiGeocodeData[LastQuery.val].lat,
                             lng |-> ProgramNmiGeocodeData[LastQuery.val].lng]]

\* C4: GET /api/addressfinder answers 400 iff nmi is missing or not one
\* string, 404 iff nmi is a string that is no key of the Address Directory,
\* and else 200 with nmi echoed and the directory's address.
C4_AddressContract ==
    (apiReq # None /\ apiReq[1].endpoint = "addressfinder") =>
        LET isString == LastQuery.kind = "string"
            known == isString /\ LastQuery.val \in NmiIds
        IN  /\ LastResponse.status = 400 <=> ~isString
            /\ LastResponse.status = 404 <=> (isString /\ ~known)
            /\ ~isString => LastResponse = BadRequest
            /\ isString /\ ~known => LastResponse = NotFound
            /\ known => LastResponse =
                  [status |-> 200,
                   body |-> [nmi |-> LastQuery.val,
                             address |-> ProgramMockAddressData[LastQuery.val]]]

\* C8: the lookups leave both directories as they were, and a request gets
\* the response its first occurrence got, whatever calls came between.
C8_LookupsIdempotent ==
    /\ nmiGeocodeData = ProgramNmiGeocodeData
    /\ mockAddressData = ProgramMockAddressData
    /\ apiReq # None => apiSeen[apiReq[1]] = apiRes

\* a successful address lookup repeated after every other request was made
C8_Witness ==
    /\ apiRepeat
    /\ apiReq = Some([endpoint |-> "addressfinder", query |-> Str("NMI002")])
    /\ LastResponse.status = 200
    /\ \A req \in Requests : apiSeen[req] # None

----------------------------------------------------------------------------
(* Claims about the selection controller (Spec) *)

\* the step is handleMapClick(c.lat, c.lng) of MapWithNmi: a click on the map
\* or a marker, or a fix of the device
Selects(c) ==
    \/ MapClick(c.lat, c.lng)
    \/ \E i \in 1..MaxInFlight : GeolocationSuccess(i, c.lat, c.lng)

\* the request this selection issued is in flight and has not been answered
Pending(c) ==
    /\ requests' # << >>
    /\ requests'[Len(requests')].pc = "nearestNmi"
    /\ requests'[Len(requests')].pos = Some(c)

\* C5: a map click at (lat, lng) yields, in the same step and while the
\* resolution of that click is pending, position = (lat, lng), isLoading =
\* true, resolvedNmi unset, draftAddress empty, confirmedAddress unset and
\* errorMessage empty, whatever the state before.
C5_ClickResets ==
    [][\A c \in ClickCoords \cup FixCoords :
          Selects(c) =>
              /\ Pending(c)
              /\ selectedPosition' = Some(c)
              /\ loading' = TRUE
              /\ selectedNmi' = Null
              /\ address' = ""
              /\ confirmedAddress' = ""
              /\ error' = ""]_vars

\* select, confirm, select again: the forward geocoding of the confirm and
\* the second resolution are both pending, and nothing of the first is left
C5_Witness ==
    /\ Len(confirms) = 1
    /\ confirms[1].address # ""
    /\ Len(requests) = 1
    /\ requests[1].pc = "nearestNmi"
    /\ selectedPosition = requests[1].pos
    /\ loading
    /\ selectedNmi = Null
    /\ address = ""
    /\ confirmedAddress = ""
    /\ error = ""

ConfirmStep == HandleConfirm \/ AppHandleConfirm

SelectStep ==
    \E c \in ClickCoords \cup FixCoords :
        Selects(c) \/ AppHandleMapClick(c.lat, c.lng)

\* C6: confirmedAddress is written by the confirm action alone, with the
\* value draftAddress has at that moment, and is cleared by every selection
\* of a position; no other step changes it.
C6_ConfirmedIsLastConfirm ==
    [][/\ ConfirmStep => confirmedAddress' = address
       /\ SelectStep => confirmedAddress' = ""
       /\ confirmedAddress' # confirmedAddress => ConfirmStep \/ SelectStep]_vars

\* an address confirmed, then edited: the confirmed value is the old draft
C6_Witness ==
    /\ confirmedAddress # ""
    /\ address # confirmedAddress
    /\ address # ""
    /\ confirms = << >>

\* C7: while draftAddress is empty or equals confirmedAddress the confirm
\* action is disabled; a confirm step never sets confirmedAddress to the
\* empty string and never re-confirms the address already confirmed.
C7_ConfirmDisabledIsNoop ==
    /\ [](address = "" \/ address = confirmedAddress => ~ENABLED ConfirmStep)
    /\ [][ConfirmStep =>
             /\ address # ""
             /\ address # confirmedAddress
             /\ confirmedAddress' # ""
             /\ confirmedAddress' # confirmedAddress]_vars

\* the panel is shown with a confirmed, unedited address: only the disabled
\* button keeps handleConfirm from running
C7_Witness ==
    /\ view = "MapWithNmi"
    /\ PanelShown
    /\ InFlight < MaxInFlight
    /\ confirmedAddress # ""
    /\ address = confirmedAddress

\* request i finishes in this step and leaves no selection request in flight
Finishes(i, outcome, results) ==
    /\ NearestNmiSettles(i, outcome) \/ AddressSettles(i, outcome, results)
    /\ requests' = << >>

Overlapped(r) == r.overtaken \/ r.overlapping

\* the last values a finishing request has written to each field
NmiWrittenBy(r) == IF r.pc = "address" THEN r.nearest[1].nmi ELSE Null
AddressWrittenBy(r, outcome, results) ==
    IF r.pc = "address" /\ outcome # "reject"
    THEN fetchAddressFromCoords(outcome, results) ELSE ""
ErrorWrittenBy(outcome) == IF outcome = "reject" THEN FailedMessage ELSE ""

\* C9 as stated: when the last of two overlapping selection requests
\* finishes, resolvedNmi, draftAddress, errorMessage and isLoading are the
\* values that request wrote.
C9_LastResolvingWins ==
    [][\A i \in 1..MaxInFlight, outcome \in FetchOutcomes,
          results \in GeocoderResults(PlaceStrings) :
          (Finishes(i, outcome, results) /\ Overlapped(requests[i])) =>
              /\ loading' = FALSE
              /\ selectedNmi' = NmiWrittenBy(requests[i])
              /\ address' = AddressWrittenBy(requests[i], outcome, results)
              /\ error' = ErrorWrittenBy(outcome)]_vars

\* C9 amended: a new selection leaves the requests in flight as they are,
\* and a finishing request overwrites only what its last step writes: when
\* the last of the overlapping requests finishes isLoading becomes false;
\* if it failed, errorMessage becomes the failure string and resolvedNmi and
\* draftAddress keep their values; otherwise draftAddress becomes its
\* reverse-geocoded address (empty, with resolvedNmi unset, when its lookup
\* returned none), errorMessage keeps its value, and resolvedNmi keeps the
\* value of the nearest-NMI lookup that settled last.
C9_CompletionsOverwrite ==
    [][/\ \A c \in ClickCoords \cup FixCoords :
             Selects(c) =>
                 \A j \in Resolving(requests) :
                     \E k \in 1..Len(requests') :
                         requests'[k] = [requests[j] EXCEPT !.overtaken = TRUE]
       /\ \A i \in 1..MaxInFlight, outcome \in FetchOutcomes,
             results \in GeocoderResults(PlaceStrings) :
             (Finishes(i, outcome, results) /\ Overlapped(requests[i])) =>
                 /\ loading' = FALSE
                 /\ outcome = "reject" =>
                       /\ error' = FailedMessage
                       /\ selectedNmi' = selectedNmi
                       /\ address' = address
                 /\ outcome # "reject" =>
                       /\ error' = error
                       /\ address' = AddressWrittenBy(requests[i], outcome, results)
                       /\ selectedNmi' = IF requests[i].pc = "address"
                                         THEN selectedNmi ELSE Null]_vars

\* the older of two overlapping requests finished last and resolved, after
\* the newer one had failed: the failure message of the newer one is left
C9_Witness ==
    /\ requests = << >>
    /\ lastSettled # None
    /\ lastSettled[1].overtaken
    /\ lastSettled[1].pc = "address"
    /\ lastSettled[1].outcome = "served"
    /\ ~loading
    /\ address \in PlaceStrings
    /\ error = FailedMessage

\* C10: when the nearest-NMI lookup or the reverse geocoding of a selection
\* request rejects, errorMessage becomes the fixed string, isLoading becomes
\* false as that request finishes, and no exception leaves the handler.
C10_FailureCaught ==
    /\ [](~uncaught)
    /\ [][\A i \in 1..MaxInFlight :
             (NearestNmiSettles(i, "reject") \/ AddressSettles(i, "reject", None)) =>
                 /\ error' = FailedMessage
                 /\ loading' = FALSE
                 /\ requests' = Remove(requests, i)]_vars

\* the reverse geocoding of the only request rejected
C10_Witness ==
    /\ lastSettled # None
    /\ lastSettled[1].pc = "address"
    /\ lastSettled[1].outcome = "reject"
    /\ requests = << >>
    /\ error = FailedMessage
    /\ ~loading
    /\ Truthy(selectedNmi)

\* a request of handleUseCurrentLocation waits for the fix of the device
AwaitsFix(i) == i \in 1..Len(requests) /\ requests[i].pc = "geolocation"

\* C11: when the geolocation request of "use current location" fails (denial
\* or timeout), errorMessage becomes the location message, isLoading becomes
\* false, the request ends without any lookup being issued for it, and
\* position, resolvedNmi, draftAddress and confirmedAddress keep their values.
C11_GeolocationFailure ==
    [][\A i \in 1..MaxInFlight :
          GeolocationFailure(i) =>
              /\ geolocation
              /\ AwaitsFix(i)
              /\ error' = LocationMessage
              /\ loading' = FALSE
              /\ requests' = Remove(requests, i)
              /\ confirms' = confirms
              /\ selectedPosition' = selectedPosition
              /\ selectedNmi' = selectedNmi
              /\ address' = address
              /\ confirmedAddress' = confirmedAddress]_vars

\* the fix was refused: the selection made before is still there, behind the
\* location message
C11_Witness ==
    /\ lastSettled # None
    /\ lastSettled[1].pc = "geolocation"
    /\ lastSettled[1].outcome = "reject"
    /\ requests = << >>
    /\ error = LocationMessage
    /\ ~loading
    /\ Truthy(selectedNmi)
    /\ selectedPosition # None
    /\ address # ""
    /\ confirmedAddress # ""

\* C12: "use current location" without the geolocation capability sets the
\* unsupported message at once and does not enter Loading: isLoading stays
\* false, no geolocation or lookup request is issued, and position,
\* resolvedNmi, draftAddress and confirmedAddress keep their values.
C12_UnsupportedSetsErrorOnly ==
    /\ [](~geolocation => \A i \in 1..Len(requests) : ~AwaitsFix(i))
    /\ [][UseCurrentLocationUnsupported =>
             /\ ~geolocation
             /\ error' = UnsupportedMessage
             /\ loading' = FALSE
             /\ loading' = loading
             /\ requests' = requests
             /\ confirms' = confirms
             /\ selectedPosition' = selectedPosition
             /\ selectedNmi' = selectedNmi
             /\ address' = address
             /\ confirmedAddress' = confirmedAddress]_vars

\* the button was pressed on a resolved selection with a confirmed address
C12_Witness ==
    /\ ~geolocation
    /\ error = UnsupportedMessage
    /\ ~loading
    /\ requests = << >>
    /\ Truthy(selectedNmi)
    /\ selectedPosition # None
    /\ confirmedAddress # ""

\* the forward geocoding answered with a coordinate
Geocoded(outcome, results) == outcome = "served" /\ results # None

\* C13: when the forward geocoding of a confirmed address ends, position
\* becomes the returned coordinate if it succeeded; if it rejected, was not
\* OK or had no result, position keeps its value and no exception leaves the
\* handler.  Either way errorMessage, isLoading and confirmedAddress keep
\* their values.
C13_ConfirmGeocodingBestEffort ==
    [][\A i \in 1..MaxInFlight, outcome \in FetchOutcomes,
          results \in GeocoderResults(GeocodedCoords) :
          ConfirmSettles(i, outcome, results) =>
              /\ Geocoded(outcome, results) => selectedPosition' = results
              /\ ~Geocoded(outcome, results) => selectedPosition' = selectedPosition
              /\ error' = error
              /\ loading' = loading
              /\ confirmedAddress' = confirmedAddress
              /\ uncaught' = uncaught
              /\ confirms' = Remove(confirms, i)]_vars

\* the confirmed address was geocoded: the position has moved to the
\* returned coordinate, the confirmation stands and nothing is reported
C13_Witness ==
    /\ view = "MapWithNmi"
    /\ confirms = << >>
    /\ requests = << >>
    /\ confirmedAddress # ""
    /\ selectedPosition \in {Some(c) : c \in GeocodedCoords}
    /\ error = ""
    /\ ~loading

\* the address input reports the string s: a keystroke or a selected place
EditStep(s) == SetAddress(s) \/ AppSetAddress(s)

\* C14: an address edit carrying the string s sets draftAddress to s and
\* changes nothing else: position, resolvedNmi, confirmedAddress, isLoading
\* and errorMessage keep their values and no request is started or ended.
C14_EditWritesDraftOnly ==
    [][\A s \in TypedStrings \cup PlaceStrings :
          EditStep(s) =>
              /\ address' = s
              /\ selectedPosition' = selectedPosition
              /\ selectedNmi' = selectedNmi
              /\ confirmedAddress' = confirmedAddress
              /\ loading' = loading
              /\ error' = error
              /\ requests' = requests
              /\ confirms' = confirms]_vars

\* the only selection request ever in flight at its time resolved, its
\* address was confirmed, and the draft was then edited to another string
C14_Witness ==
    /\ view = "MapWithNmi"
    /\ requests = << >>
    /\ lastSettled # None
    /\ ~Overlapped(lastSettled[1])
    /\ lastSettled[1].pc = "address"
    /\ PanelShown
    /\ confirmedAddress = "A2"
    /\ address = "A1"

\* the position is exactly the coordinate of a record of the NMI Directory
Coincides ==
    /\ selectedPosition # None
    /\ \E k \in 1..Len(ProgramNmiMarkers) :
          /\ ProgramNmiMarkers[k].lat = selectedPosition[1].lat
          /\ ProgramNmiMarkers[k].lng = selectedPosition[1].lng

Resolves(i, outcome) ==
    /\ NearestNmiSettles(i, outcome)
    /\ Len(requests') = Len(requests)

\* the draft is written with a non-empty string by something else than an
\* edit of the address input
DraftFilled ==
    /\ address' # address
    /\ address' # ""
    /\ \A s \in TypedStrings \cup PlaceStrings : ~EditStep(s)

\* the steps of a resolving request of MapWithNmi, in their order
ResolvedInOrder ==
    /\ \A i \in 1..MaxInFlight, outcome \in FetchOutcomes :
          Resolves(i, outcome) =>
              /\ requests[i].pc = "nearestNmi"
              /\ selectedNmi' = requests[i].nearest[1].nmi
              /\ requests'[i].pc = "address"
              /\ requests'[i].latlng = requests[i].pos
              /\ address' = address
              /\ loading' = loading
    /\ \A i \in 1..MaxInFlight, outcome \in {"served", "httpError"},
          results \in GeocoderResults(PlaceStrings) :
          AddressSettles(i, outcome, results) =>
              /\ requests[i].pc = "address"
              /\ requests[i].latlng = requests[i].pos
              /\ address' = fetchAddressFromCoords(outcome, results)
              /\ loading' = FALSE
              /\ requests' = Remove(requests, i)

\* C16 as stated: a request that resolves sets resolvedNmi to the record's
\* identifier, then asks the reverse geocoder about the selected coordinate,
\* then stores the answer as draftAddress and clears isLoading; a selection
\* fills draftAddress only by that last step.
C16_AddressAfterNmi ==
    [][/\ ResolvedInOrder
       /\ DraftFilled =>
             \E i \in 1..MaxInFlight, results \in GeocoderResults(PlaceStrings) :
                 AddressSettles(i, "served", results)]_vars

\* C16 amended: in MapWithNmi a request that resolves sets resolvedNmi to
\* the record's identifier, then asks the reverse geocoder about the
\* selected coordinate, then stores the answer as draftAddress and clears
\* isLoading, and a selection fills draftAddress only by that last step.  In
\* App a click sets resolvedNmi and, in the same step, draftAddress to the
\* Address Directory entry of that identifier.
C16_AddressAfterNmiOrFromDirectory ==
    [][/\ ResolvedInOrder
       /\ DraftFilled /\ view = "MapWithNmi" =>
             \E i \in 1..MaxInFlight, results \in GeocoderResults(PlaceStrings) :
                 AddressSettles(i, "served", results)
       /\ DraftFilled /\ view = "App" =>
             /\ \E c \in ClickCoords : AppHandleMapClick(c.lat, c.lng)
             /\ selectedNmi' \in NmiIds
             /\ address' = ProgramMockAddressData[selectedNmi']]_vars

\* a click next to NMI002 has resolved: resolvedNmi is set, the address of
\* the clicked coordinate, which is not the record's, is being asked for,
\* and the draft is still empty
C16_Witness ==
    /\ Len(requests) = 1
    /\ requests[1].pc = "address"
    /\ requests[1].latlng = requests[1].pos
    /\ requests[1].pos # Position(requests[1].nearest[1].lat,
                                  requests[1].nearest[1].lng)
    /\ selectedNmi = requests[1].nearest[1].nmi
    /\ address = ""
    /\ loading

\* C17 as stated: isLoading is true whenever a selection request is in
\* flight.
C17_LoadingWhileInFlight == requests # << >> => loading

\* C17 amended: isLoading is true only while a selection request is in
\* flight; every step that issues a selection request sets it, and it
\* becomes false only in a step in which a selection request finishes.  So
\* it is true with requests in flight until the first of them finishes, and
\* is false with a request in flight only after another one has finished.
C17_LoadingUntilFirstFinish ==
    /\ [](loading => requests # << >>)
    /\ []((requests # << >> /\ ~loading) => lastSettled # None)
    /\ [][/\ (UseCurrentLocation
                 \/ \E c \in ClickCoords \cup FixCoords : Selects(c))
                => loading' /\ requests' # << >>
          /\ (loading /\ ~loading') =>
                /\ Len(requests') = Len(requests) - 1
                /\ lastSettled' # None]_vars

\* the newer of two overlapping selections has finished and cleared
\* isLoading; the older one is still waiting for its address
C17_Witness ==
    /\ Len(requests) = 1
    /\ requests[1].overtaken
    /\ requests[1].pc = "address"
    /\ lastSettled # None
    /\ lastSettled[1].overlapping
    /\ ~loading
    /\ error = ""

\* C19 as stated: confirmedAddress is non-empty only while resolvedNmi is
\* set.
C19_ConfirmedOnlyWithNmi == confirmedAddress # "" => Truthy(selectedNmi)

\* the step unsets resolvedNmi and leaves a confirmed address behind
NmiLostUnderConfirmed ==
    /\ Truthy(selectedNmi)
    /\ ~Truthy(selectedNmi')
    /\ confirmedAddress' # ""

\* C19 amended: confirmedAddress is set only by a confirm in a state where
\* resolvedNmi is set, and every selection clears both; in App it is
\* non-empty only while resolvedNmi is set.  In MapWithNmi resolvedNmi is
\* unset under a confirmed address only by a selection request that was in
\* flight together with another one and whose nearest-NMI lookup returns
\* none.
C19_ConfirmedOnlyByConfirmWithNmi ==
    /\ [](view = "App" => C19_ConfirmedOnlyWithNmi)
    /\ [][/\ (confirmedAddress' # "" /\ confirmedAddress' # confirmedAddress) =>
                /\ ConfirmStep
                /\ Truthy(selectedNmi)
                /\ selectedNmi' = selectedNmi
          /\ SelectStep /\ view = "MapWithNmi" =>
                /\ confirmedAddress' = ""
                /\ selectedNmi' = Null
          /\ NmiLostUnderConfirmed =>
                \E i \in 1..Len(requests) :
                    /\ NearestNmiSettles(i, "httpError")
                    /\ Overlapped(requests[i])]_vars

\* an address was confirmed while an older selection was still in flight,
\* and that selection's lookup then returned none
C19_Witness ==
    /\ view = "MapWithNmi"
    /\ confirmedAddress # ""
    /\ selectedNmi = Null
    /\ lastSettled # None
    /\ lastSettled[1].pc = "nearestNmi"
    /\ lastSettled[1].outcome = "httpError"
    /\ requests = << >>

\* no request of any kind is in flight
Quiescent == requests = << >> /\ confirms = << >>

\* resolvedNmi is the identifier of the directory record nearest to pos
NearestTo(pos) ==
    \E k \in 1..Len(ProgramNmiMarkers) :
        /\ FirstMinimal(ProgramNmiMarkers, k, pos[1].lat, pos[1].lng)
        /\ selectedNmi = ProgramNmiMarkers[k].nmi

\* position was written by the forward geocoding of a confirm; the
\* coordinates the geocoder returns are none of those that are selected
Moved == selectedPosition \in {Some(c) : c \in GeocodedCoords}

\* C20 as stated: in every quiescent state with resolvedNmi set and no
\* errorMessage, resolvedNmi is the identifier of the directory record
\* nearest to position.
C20_NmiNearestToPosition ==
    (Quiescent /\ Truthy(selectedNmi) /\ error = "" /\ selectedPosition # None)
        => NearestTo(selectedPosition)

\* C20 amended: a request that resolves sets resolvedNmi to the identifier
\* of the record nearest to the coordinate it was issued for.  In every
\* quiescent state with resolvedNmi set and no errorMessage, resolvedNmi is
\* the identifier of the record nearest to position, provided that the
\* selection request that finished last was never in flight together with
\* another one and that no forward geocoding of a confirm has moved
\* position since.
C20_NmiNearestToSelection ==
    /\ []((/\ Quiescent
           /\ Truthy(selectedNmi)
           /\ error = ""
           /\ selectedPosition # None
           /\ ~Moved
           /\ view = "MapWithNmi" => lastSettled # None /\ ~Overlapped(lastSettled[1]))
              => NearestTo(selectedPosition))
    /\ [][\A i \in 1..MaxInFlight :
             Resolves(i, "served") =>
                 \E k \in 1..Len(ProgramNmiMarkers) :
                     /\ FirstMinimal(ProgramNmiMarkers, k,
                                     requests[i].pos[1].lat, requests[i].pos[1].lng)
                     /\ selectedNmi' = ProgramNmiMarkers[k].nmi]_vars

\* a click next to NMI002 has resolved on its own and nothing has moved the
\* position: resolvedNmi is the nearest record, which is not where the
\* position is
C20_Witness ==
    /\ view = "MapWithNmi"
    /\ Quiescent
    /\ lastSettled # None
    /\ ~Overlapped(lastSettled[1])
    /\ lastSettled[1].pc = "address"
    /\ error = ""
    /\ selectedPosition = Position(-37, 146)
    /\ selectedNmi = "NMI002"
    /\ confirmedAddress # ""

----------------------------------------------------------------------------
(* Claims about the selection controller when its collaborators answer    *)
(* (FairSpec)                                                              *)

\* a selection request in flight is answered in this step
Answered ==
    \E i \in 1..MaxInFlight :
        \/ \E outcome \in FetchOutcomes : NearestNmiSettles(i, outcome)
        \/ \E outcome \in FetchOutcomes, results \in GeocoderResults(PlaceStrings) :
              AddressSettles(i, outcome, results)
        \/ GeolocationFailure(i)
        \/ \E c \in FixCoords : GeolocationSuccess(i, c.lat, c.lng)

\* C18 as stated: from every state with isLoading = true a state with
\* isLoading = false and no selection request in flight is reached.
C18_LoadingLeadsToQuiescence ==
    loading ~> (~loading /\ requests = << >>)

\* C18 amended: from every state with isLoading = true a state with
\* isLoading = false is reached, whichever way the requests in flight end;
\* each answer either finishes its request, clearing isLoading, or moves it
\* on to its next await.
C18_LoadingLeadsToIdle ==
    /\ loading ~> ~loading
    /\ [][Answered =>
             \/ Len(requests') = Len(requests) - 1 /\ ~loading'
             \/ /\ Len(requests') = Len(requests)
                /\ loading' \/ ~loading
                /\ \/ \E i \in 1..Len(requests) :
                         /\ requests[i].pc = "nearestNmi"
                         /\ requests'[i].pc = "address"
                   \/ /\ \E i \in 1..Len(requests) : requests[i].pc = "geolocation"
                      /\ requests'[Len(requests')].pc = "nearestNmi"]_vars

\* the only request in flight ended with no NMI: Loading was left by the
\* Empty path, with nothing in flight
C18_Witness ==
    /\ lastSettled # None
    /\ lastSettled[1].pc = "nearestNmi"
    /\ lastSettled[1].outcome = "httpError"
    /\ ~Overlapped(lastSettled[1])
    /\ requests = << >>
    /\ ~loading
    /\ selectedNmi = Null
    /\ error = ""

====
